---- MODULE Spec2Model ----
(***************************************************************************)
(* Market Minds forecaster (src/app.py): one Streamlit script that is      *)
(* re-executed from top to bottom on every widget change.  A run reads the *)
(* sidebar widgets, optionally clears the process-wide data cache, loads   *)
(* the price history through the memoised load_data, and then renders      *)
(* either a single warning or the header, the KPI grid and the three tabs  *)
(* (forecast, backtest, candlestick).                                      *)
(*                                                                         *)
(* Floats are modelled exactly: a finite value is an integer or a rational *)
(* num/den, NaN and +inf are explicit values with the IEEE/pandas rules    *)
(* the script relies on (comparisons with NaN are false, mean() skips NaN).*)
(* The forecasting library is an external collaborator: a fitted model     *)
(* predicts one level, chosen nondeterministically, for every timestamp it *)
(* is asked about.                                                         *)
(***************************************************************************)
EXTENDS Integers, Sequences, FiniteSets, TLC

(* ------------------------------ constants ------------------------------ *)
\* program constants
TTL == 3600
HorizonMin == 30
MinTrain == 30
SmaWindow == 50
ExcellentBelow == 5
GoodBelow == 10

\* bounds of the model
MaxHorizon == 31
MaxLen == 62
LenSpan == 3
MaxTicks == 2
TickStep == 1800
BasePrice == 100
HaltDays == 40

(* ------------------------------- floats -------------------------------- *)
Num(v) == [k |-> "num", num |-> v, den |-> 1]
NaN == [k |-> "nan", num |-> 0, den |-> 1]
Inf == [k |-> "inf", num |-> 0, den |-> 1]

RECURSIVE Gcd(_, _)
Gcd(a, b) == IF b = 0 THEN a ELSE Gcd(b, a % b)

Rat(n, d) ==
    LET g == Gcd(n, d) IN [k |-> "num", num |-> n \div g, den |-> d \div g]

Abs(x) == IF x < 0 THEN -x ELSE x

\* a < c for a float a and an integer literal c; false for NaN and +inf
FLess(a, c) == a.k = "num" /\ a.num < c * a.den

\* a > b for two floats of the model (b finite or NaN)
FGreater(a, b) ==
    /\ a.k # "nan" /\ b.k # "nan"
    /\ \/ a.k = "inf" /\ b.k = "num"
       \/ a.k = "num" /\ b.k = "num" /\ a.num * b.den > b.num * a.den

\* |y - yhat|
FAbsDiff(y, yhat) ==
    IF y.k = "nan" \/ yhat.k = "nan" THEN NaN
    ELSE Rat(Abs(y.num * yhat.den - yhat.num * y.den), y.den * yhat.den)

\* e / y with numpy's rules: x/0 = inf for x > 0, 0/0 = NaN
FDiv(e, y) ==
    IF e.k = "nan" \/ y.k = "nan" THEN NaN
    ELSE IF y.num = 0 THEN (IF e.num = 0 THEN NaN ELSE Inf)
    ELSE Rat(e.num * y.den, e.den * y.num)

FAdd(a, b) ==
    IF a.k = "inf" \/ b.k = "inf" THEN Inf
    ELSE Rat(a.num * b.den + b.num * a.den, a.den * b.den)

FScale(a, c) == IF a.k = "num" THEN Rat(a.num * c, a.den) ELSE a

\* the sum of a column, added up value by value: each distinct value times
\* the number of rows that hold it
RECURSIVE FSumOf(_, _)
FSumOf(s, values) ==
    IF values = {} THEN Num(0)
    ELSE LET v == CHOOSE x \in values : TRUE
             n == Cardinality({i \in 1..Len(s) : s[i] = v})
         IN  FAdd(FScale(v, n), FSumOf(s, values \ {v}))
FSum(s) == FSumOf(s, {s[i] : i \in 1..Len(s)})

\* pandas Series.mean(): NaN entries are skipped, the mean of nothing is NaN
Mean(s) ==
    LET kept == SelectSeq(s, LAMBDA x : x.k # "nan")
        total == FSum(kept)
    IN  IF kept = <<>> THEN NaN
        ELSE IF total.k = "inf" THEN Inf
        ELSE Rat(total.num, total.den * Len(kept))

(* ------------------------------- inputs -------------------------------- *)
TypedSymbols == {"a", "A", "B"}
Upper(s) == IF s = "a" THEN "A" ELSE s
Symbols == {Upper(s) : s \in TypedSymbols}
Years == {1, 2}
Horizons == HorizonMin..MaxHorizon
Levels == {0, BasePrice - 10, BasePrice - 9, BasePrice - 5, BasePrice - 4, BasePrice}

Calendars == {"daily", "weekdays", "haltA", "haltB"}
Shapes == {"flat", "zeroLast", "nanLast", "allZero"}
Lens == (0..2) \cup ((MaxLen - LenSpan)..MaxLen)

\* the date (a day number) of the i-th bar
DateOf(cal, i) ==
    CASE cal = "daily" -> i
      [] cal = "weekdays" -> 7 * ((i - 1) \div 5) + ((i - 1) % 5) + 1
      [] cal = "haltA" -> IF i <= MinTrain THEN i ELSE i + HaltDays
      [] cal = "haltB" -> IF i <= MinTrain + 1 THEN i ELSE i + HaltDays

\* the close of the i-th of n bars
CloseOf(shape, i, n) ==
    CASE shape = "flat" -> Num(BasePrice)
      [] shape = "zeroLast" -> IF i = n THEN Num(0) ELSE Num(BasePrice)
      [] shape = "nanLast" -> IF i = n THEN NaN ELSE Num(BasePrice)
      [] shape = "allZero" -> Num(0)

Bars(n, cal, shape) ==
    [i \in 1..n |-> [Date |-> DateOf(cal, i), Close |-> CloseOf(shape, i, n)]]

\* what the provider can answer: an exception, or a frame of bars (maybe none)
Failure == [ok |-> FALSE, rows |-> <<>>]
Frame(rows) == [ok |-> TRUE, rows |-> rows]
Responses ==
    {Failure} \cup {Frame(Bars(n, cal, shape)) :
                        n \in Lens, cal \in Calendars, shape \in Shapes}
CacheResponses == {Failure, Frame(Bars(2, "daily", "flat"))}

(* -------------------------------- state -------------------------------- *)
VARIABLES
    now,             \* the clock, in seconds
    cache,           \* st.cache_data's store for load_data
    selected_stock,  \* widget values of the current run
    n_years,
    forecast_days,
    clear_cache,     \* whether this run's Clear Cache button was pressed
    pc,              \* position of the script
    data,            \* the frame load_data returned
    current_price,
    train_set,
    test_set,
    combined,        \* the merged frame of the backtest
    out,             \* what the run has put on the page
    hist,            \* history: per key, the provider call made last since
                     \* the last clear
    lastLoad         \* history: how the run's load_data call was served

vars == <<now, cache, selected_stock, n_years, forecast_days, clear_cache, pc, data,
          current_price, train_set, test_set, combined, out, hist, lastLoad>>

(* -------------------------------- cache -------------------------------- *)
\* st.cache_data keys an entry by the call's arguments
CacheKey(ticker, years) == <<ticker, years>>

Keys == Symbols \X Years
NoEntry == [present |-> FALSE, at |-> 0, val |-> <<>>]
EmptyCache == [k \in Keys |-> NoEntry]

\* an entry is served while it is younger than the ttl
FreshInclusive(entry, t) == entry.present /\ t - entry.at <= TTL
Fresh(entry, t) == entry.present /\ t - entry.at < TTL

\* st.cache_data.clear()
CacheClear(c) == EmptyCache

\* the body of load_data: any exception becomes the empty frame
load_data(resp) == IF resp.ok THEN resp.rows ELSE <<>>

\* the decorator stores whatever the call returned
StoreUnlessEmpty(c, key, val, t) ==
    IF val = <<>> THEN c
    ELSE [c EXCEPT ![key] = [present |-> TRUE, at |-> t, val |-> val]]
CacheStore(c, key, val, t) ==
    [c EXCEPT ![key] = [present |-> TRUE, at |-> t, val |-> val]]

(* ------------------------------ pipeline ------------------------------- *)
NeverEmpty(d) == FALSE
IsEmpty(d) == Len(d) = 0

\* data[['Date', 'Close']].rename(columns={"Date": "ds", "Close": "y"})
DfTrain(d) == [i \in 1..Len(d) |-> [ds |-> d[i].Date, y |-> d[i].Close]]

\* data['Close'].rolling(window=w).mean() at row i (1-based)
Sma(d, w, i) ==
    IF i < w THEN NaN
    ELSE LET win == [j \in 1..w |-> d[i - w + j].Close]
         IN  IF \E j \in 1..w : win[j].k = "nan" THEN NaN ELSE Mean(win)

\* Prophet.fit refuses a frame with fewer than two rows that have a value
FitRaises(df) == Cardinality({i \in 1..Len(df) : df[i].y.k # "nan"}) < 2

\* make_future_dataframe(periods) and predict: the history's dates followed
\* by the next `periods` calendar days, each with the model's prediction
Predict(df, periods, level) ==
    LET last == df[Len(df)].ds
    IN  [i \in 1..(Len(df) + periods) |->
            [ds |-> IF i <= Len(df) THEN df[i].ds ELSE last + (i - Len(df)),
             yhat |-> Num(level)]]

TooShortInclusive(train_len) == train_len <= MinTrain
TooShort(train_len) == train_len < MinTrain

SplitOffByOne(df, train_len) ==
    [train |-> SubSeq(df, 1, train_len + 1), test |-> SubSeq(df, train_len + 1, Len(df))]
Split(df, train_len) ==
    [train |-> SubSeq(df, 1, train_len), test |-> SubSeq(df, train_len + 1, Len(df))]

\* pd.merge(test_set, forecast_bt[['ds', 'yhat']], on='ds'): inner join
Merge(test, fc) ==
    LET hit(i) == {j \in 1..Len(fc) : fc[j].ds = test[i].ds}
        rows == SelectSeq([i \in 1..Len(test) |-> i], LAMBDA i : hit(i) # {})
    IN  [r \in 1..Len(rows) |->
            [ds |-> test[rows[r]].ds, y |-> test[rows[r]].y,
             yhat |-> fc[CHOOSE j \in hit(rows[r]) : TRUE].yhat]]

AbsError(c) == [i \in 1..Len(c) |-> FAbsDiff(c[i].y, c[i].yhat)]
Mae(c) == Mean(AbsError(c))
Mape(c) == FScale(Mean([i \in 1..Len(c) |-> FDiv(AbsError(c)[i], c[i].y)]), 100)

TierInclusive(mape) ==
    IF mape.k = "num" /\ mape.num <= ExcellentBelow * mape.den THEN {"excellent"}
    ELSE IF mape.k = "num" /\ mape.num <= GoodBelow * mape.den THEN {"good"}
    ELSE {"poor"}
Tier(mape) ==
    IF FLess(mape, ExcellentBelow) THEN {"excellent"}
    ELSE IF FLess(mape, GoodBelow) THEN {"good"}
    ELSE {"poor"}

BlankPage ==
    [warnings |-> 0, header |-> FALSE, kpi |-> FALSE, sma50 |-> NaN,
     fcFit |-> FALSE, fcChart |-> FALSE, fcInfo |-> FALSE, fcLen |-> 0,
     target |-> NaN, trend |-> "none",
     btError |-> FALSE, btFit |-> FALSE, btMetrics |-> FALSE,
     mae |-> NaN, mape |-> NaN, tiers |-> {}, btChart |-> FALSE,
     candle |-> FALSE, exception |-> "none"]

NoHist == [fetched |-> FALSE, at |-> 0, failed |-> FALSE, rows |-> <<>>]

Init ==
    /\ now = 0
    /\ cache = EmptyCache
    /\ selected_stock = "A"
    /\ n_years = 1
    /\ forecast_days = HorizonMin
    /\ clear_cache = FALSE
    /\ pc = "idle"
    /\ data = <<>>
    /\ current_price = NaN
    /\ train_set = <<>>
    /\ test_set = <<>>
    /\ combined = <<>>
    /\ out = BlankPage
    /\ hist = [k \in Keys |-> NoHist]
    /\ lastLoad = "none"

(* ------------------------------- actions ------------------------------- *)
\* Lines 80-89: a rerun reads the widgets and, if the button was pressed,
\* clears the cache before anything is loaded.
Run(typedSet, yearSet, horizonSet) ==
    /\ pc \in {"idle", "done", "crashed"}
    /\ \E typed \in typedSet, years \in yearSet, days \in horizonSet,
          clear \in BOOLEAN :
          /\ selected_stock' = Upper(typed)
          /\ n_years' = years
          /\ forecast_days' = days
          /\ clear_cache' = clear
          /\ cache' = IF clear THEN CacheClear(cache) ELSE cache
          /\ hist' = IF clear THEN [k \in Keys |-> NoHist] ELSE hist
    /\ pc' = "load"
    /\ data' = <<>>
    /\ current_price' = NaN
    /\ train_set' = <<>>
    /\ test_set' = <<>>
    /\ combined' = <<>>
    /\ out' = BlankPage
    /\ lastLoad' = "none"
    /\ UNCHANGED now

\* Lines 106-125: data = load_data(selected_stock, n_years) behind
\* st.cache_data(ttl=3600).
Load(responseSet) ==
    /\ pc = "load"
    /\ LET key == CacheKey(selected_stock, n_years) IN
         IF Fresh(cache[key], now)
         THEN /\ data' = cache[key].val
              /\ lastLoad' = "hit"
              /\ UNCHANGED <<cache, hist>>
         ELSE \E resp \in responseSet :
                 /\ data' = load_data(resp)
                 /\ cache' = CacheStore(cache, key, data', now)
                 /\ hist' = [hist EXCEPT ![<<selected_stock, n_years>>] =
                                [fetched |-> TRUE, at |-> now,
                                 failed |-> ~resp.ok, rows |-> data']]
                 /\ lastLoad' = "miss"
    /\ pc' = "main"
    /\ UNCHANGED <<now, selected_stock, n_years, forecast_days, clear_cache,
                   current_price, train_set, test_set, combined, out>>

\* Lines 127-128
Warn ==
    /\ pc = "main"
    /\ IsEmpty(data)
    /\ out' = [out EXCEPT !.warnings = @ + 1]
    /\ pc' = "done"
    /\ UNCHANGED <<now, cache, selected_stock, n_years, forecast_days,
                   clear_cache, data,
                   current_price, train_set, test_set, combined, hist, lastLoad>>

\* Lines 129-150: data.iloc[-2] raises IndexError on a one-row frame
Header ==
    /\ pc = "main"
    /\ ~IsEmpty(data)
    /\ IF Len(data) < 2
       THEN /\ out' = [out EXCEPT !.exception = "IndexError"]
            /\ pc' = "crashed"
            /\ current_price' = IF Len(data) = 0 THEN current_price
                                ELSE data[Len(data)].Close
       ELSE /\ out' = [out EXCEPT !.header = TRUE]
            /\ pc' = "kpi"
            /\ current_price' = data[Len(data)].Close
    /\ UNCHANGED <<now, cache, selected_stock, n_years, forecast_days,
                   clear_cache, data,
                   train_set, test_set, combined, hist, lastLoad>>

\* Lines 153-159
Kpi ==
    /\ pc = "kpi"
    /\ out' = [out EXCEPT !.kpi = TRUE, !.sma50 = Sma(data, SmaWindow, Len(data))]
    /\ pc' = "forecast"
    /\ UNCHANGED <<now, cache, selected_stock, n_years, forecast_days,
                   clear_cache, data,
                   current_price, train_set, test_set, combined, hist, lastLoad>>

\* Lines 165-187
ForecastTab ==
    /\ pc = "forecast"
    /\ LET df_train == DfTrain(data) IN
         IF FitRaises(df_train)
         THEN /\ out' = [out EXCEPT !.fcFit = TRUE, !.exception = "ValueError"]
              /\ pc' = "crashed"
         ELSE \E level \in Levels :
                 LET forecast == Predict(df_train, forecast_days, level)
                     pred_price == forecast[Len(forecast)].yhat
                 IN  /\ out' = [out EXCEPT
                                  !.fcFit = TRUE, !.fcChart = TRUE, !.fcInfo = TRUE,
                                  !.fcLen = Len(forecast), !.target = pred_price,
                                  !.trend = IF FGreater(pred_price, current_price)
                                            THEN "bullish" ELSE "bearish"]
                     /\ pc' = "backtest"
    /\ UNCHANGED <<now, cache, selected_stock, n_years, forecast_days,
                   clear_cache, data,
                   current_price, train_set, test_set, combined, hist, lastLoad>>

\* Line 196: the too-short branch of the backtest tab shows the error and
\* the script goes on to the next tab
ShortStops(page) == [page |-> [page EXCEPT !.btError = TRUE], pc |-> "done"]
ShortBacktest(page) == [page |-> [page EXCEPT !.btError = TRUE], pc |-> "chart"]

\* Lines 190-226
BacktestTab ==
    /\ pc = "backtest"
    /\ LET df_train == DfTrain(data)
           train_len == Len(df_train) - forecast_days
       IN  IF TooShort(train_len)
           THEN /\ out' = ShortBacktest(out).page
                /\ pc' = ShortBacktest(out).pc
                /\ UNCHANGED <<train_set, test_set, combined>>
           ELSE LET parts == Split(df_train, train_len) IN
                /\ train_set' = parts.train
                /\ test_set' = parts.test
                /\ IF FitRaises(parts.train)
                   THEN /\ out' = [out EXCEPT !.btFit = TRUE,
                                              !.exception = "ValueError"]
                        /\ pc' = "crashed"
                        /\ UNCHANGED combined
                   ELSE \E level \in Levels :
                           LET forecast_bt ==
                                   Predict(parts.train, forecast_days, level)
                               merged == Merge(parts.test, forecast_bt)
                           IN  /\ combined' = merged
                               /\ out' = [out EXCEPT
                                            !.btFit = TRUE, !.btMetrics = TRUE,
                                            !.mae = Mae(merged),
                                            !.mape = Mape(merged),
                                            !.tiers = Tier(Mape(merged)),
                                            !.btChart = TRUE]
                               /\ pc' = "chart"
    /\ UNCHANGED <<now, cache, selected_stock, n_years, forecast_days,
                   clear_cache, data,
                   current_price, hist, lastLoad>>

\* Lines 229-241
ChartTab ==
    /\ pc = "chart"
    /\ out' = [out EXCEPT !.candle = TRUE]
    /\ pc' = "done"
    /\ UNCHANGED <<now, cache, selected_stock, n_years, forecast_days,
                   clear_cache, data,
                   current_price, train_set, test_set, combined, hist, lastLoad>>

\* time passes
Tick ==
    /\ now < MaxTicks * TickStep
    /\ now' = now + TickStep
    /\ UNCHANGED <<cache, selected_stock, n_years, forecast_days,
                   clear_cache, pc, data,
                   current_price, train_set, test_set, combined, out, hist,
                   lastLoad>>

(* One ticker and one lookback, every price history of the family. *)
Rerun == Run({"A"}, {1}, Horizons)
LoadData == Load(Responses)
Next ==
    \/ Rerun \/ LoadData \/ Warn \/ Header \/ Kpi
    \/ ForecastTab \/ BacktestTab \/ ChartTab
Spec == Init /\ [][Next]_vars

(* Every ticker and lookback over time, a few short price histories. *)
CacheRerun == Run(TypedSymbols, Years, {HorizonMin})
CacheLoadData == Load(CacheResponses)
CacheNext ==
    \/ CacheRerun \/ CacheLoadData \/ Tick \/ Warn \/ Header \/ Kpi
    \/ ForecastTab \/ BacktestTab \/ ChartTab
CacheSpec == Init /\ [][CacheNext]_vars

(* ------------------------------ properties ----------------------------- *)
RunKey == <<selected_stock, n_years>>
TrainLen == Len(data) - forecast_days
RunEnded == pc \in {"done", "crashed"}
\* the script has left the backtest tab (the forecast tab completed first)
PastBacktest == out.fcInfo /\ pc \in {"chart", "done", "crashed"}
ValuedCloses == Cardinality({i \in 1..Len(data) : data[i].Close.k # "nan"})

\* C1: once the backtest tab has executed, it shows the not-enough-data
\* error exactly when len(series) - horizon_days < 30, and then no backtest
\* model is fitted and no metric or tier is computed; with 30 or more
\* training points the backtest model is fitted.
C1_InsufficientTraining ==
    PastBacktest =>
        /\ out.btError <=> TrainLen < 30
        /\ out.btError =>
              /\ ~out.btFit /\ ~out.btMetrics /\ ~out.btChart
              /\ out.tiers = {} /\ out.mae = NaN /\ out.mape = NaN
              /\ train_set = <<>> /\ test_set = <<>> /\ combined = <<>>
        /\ TrainLen >= 30 => out.btFit /\ Len(train_set) = TrainLen

\* a run whose training set has 29 points has shown the error, and the
\* horizon does not exceed the series
C1_Witness ==
    /\ PastBacktest /\ TrainLen = 29 /\ out.btError /\ ~out.btFit

\* C2: a run whose load failed or returned no rows holds the empty frame,
\* and a run on the empty frame shows the warning once and nothing else.
C2_EmptyOnlyWarns ==
    /\ (pc \notin {"idle", "load"} /\ lastLoad = "miss" /\ hist[RunKey].failed)
          => data = <<>>
    /\ (pc \notin {"idle", "load"} /\ data = <<>>) =>
          \/ pc = "main" /\ out = BlankPage
          \/ pc = "done" /\ out = [BlankPage EXCEPT !.warnings = 1]

C2_Witness ==
    /\ pc = "done" /\ lastLoad = "miss" /\ hist[RunKey].failed
    /\ data = <<>> /\ out.warnings = 1

\* C3: whenever the series of a run has fewer than 2 points or a close
\* without a finite value, the forecast model is not invoked.
C3_NoFitOnBadSeries ==
    (/\ pc \notin {"idle", "load"}
     /\ \/ Len(data) < 2
        \/ \E i \in 1..Len(data) : data[i].Close.k # "num")
        => ~out.fcFit

\* C4 as stated: every finished run on a non-empty series whose training
\* set is below the floor has fitted and rendered the forecast, rendered
\* the candlestick chart, and shows the error in the backtest view only.
C4_AnyNonEmptySeries ==
    (RunEnded /\ Len(data) > 0 /\ TrainLen < 30) =>
        /\ out.fcFit /\ out.fcChart /\ out.fcInfo /\ out.candle
        /\ out.btError /\ out.exception = "none" /\ out.warnings = 0

\* C4 amended: the same for a series with at least two closes that have a
\* value; and the backtest view then holds nothing but the error.
C4_ShortBacktestIsLocal ==
    (RunEnded /\ ValuedCloses >= 2 /\ TrainLen < 30) =>
        /\ pc = "done"
        /\ out.fcFit /\ out.fcChart /\ out.fcInfo /\ out.candle
        /\ out.fcLen = Len(data) + forecast_days
        /\ out.btError /\ out.exception = "none" /\ out.warnings = 0
        /\ ~out.btFit /\ ~out.btMetrics /\ ~out.btChart

C4_Witness ==
    /\ pc = "done" /\ Len(data) = 2 /\ TrainLen < 0
    /\ out.btError /\ out.candle /\ out.fcInfo

\* C5: when the backtest has run, the test set is the last horizon_days
\* rows of the series, the training set is the rows before them in their
\* order, no row is in both, and every training date is before every test
\* date.
C5_SplitIsPartition ==
    out.btFit =>
        LET df == [i \in 1..Len(data) |-> [ds |-> data[i].Date, y |-> data[i].Close]]
            n == Len(df)
        IN  /\ Len(test_set) = forecast_days
            /\ Len(train_set) = n - forecast_days
            /\ \A i \in 1..Len(test_set) : test_set[i] = df[n - forecast_days + i]
            /\ \A i \in 1..Len(train_set) : train_set[i] = df[i]
            /\ \A i \in 1..Len(train_set), j \in 1..Len(test_set) :
                  /\ train_set[i] # test_set[j]
                  /\ train_set[i].ds < test_set[j].ds

C5_Witness ==
    /\ out.btFit /\ Len(train_set) = 30 /\ Len(test_set) = forecast_days
    /\ forecast_days > HorizonMin

\* C6: when no prediction date matches a test date, the backtest reports
\* no MAE, no MAPE and no accuracy tier.
C6_NoOverlapFails ==
    (out.btFit /\ pc \in {"chart", "done"} /\ combined = <<>>) =>
        ~out.btMetrics /\ out.tiers = {}

\* the mean absolute percentage error over the pairs whose actual is not 0
SkippingMape(c) == Mape(SelectSeq(c, LAMBDA r : r.y # Num(0)))

\* C7: when an aligned actual value is zero, the backtest either reports
\* nothing or reports the MAPE of the remaining pairs.
C7_ZeroActualGuarded ==
    (out.btFit /\ pc \in {"chart", "done"}
        /\ \E i \in 1..Len(combined) : combined[i].y = Num(0)) =>
        \/ ~out.btMetrics /\ out.tiers = {}
        \/ out.mape.k = "num" /\ out.mape = SkippingMape(combined)

\* C8: a scored backtest reports exactly one tier: excellent below 5, good
\* from 5 to below 10, poor from 10 on.
C8_TierThresholds ==
    out.btMetrics =>
        LET m == out.mape IN
        /\ Cardinality(out.tiers) = 1
        /\ out.tiers \subseteq {"excellent", "good", "poor"}
        /\ (m.k = "num" /\ m.num < 5 * m.den) => out.tiers = {"excellent"}
        /\ (m.k = "num" /\ 5 * m.den <= m.num /\ m.num < 10 * m.den)
              => out.tiers = {"good"}
        /\ (m.k = "inf" \/ (m.k = "num" /\ m.num >= 10 * m.den))
              => out.tiers = {"poor"}

\* a backtest whose MAPE is exactly 5 is reported as good
C8_Witness ==
    /\ out.btMetrics /\ out.mape = Num(5) /\ out.tiers = {"good"}
    /\ Len(combined) > 1

\* the step in which the script calls load_data
LoadStep == pc = "load" /\ pc' = "main"
\* the provider was called for key k after the last clear, less than the
\* time-to-live ago
Remembered(k) == hist[k].fetched /\ now - hist[k].at < 3600

\* C9: a load is served from the cache only if the provider was called for
\* exactly that (symbol, years) less than 3600 s ago with no clear since,
\* and then returns that call's result; otherwise the provider is called;
\* and a run that clears starts its load with nothing cached.
C9_CacheContract ==
    [][/\ LoadStep =>
            /\ lastLoad' \in {"hit", "miss"}
            /\ lastLoad' = "hit" =>
                  /\ Remembered(RunKey)
                  /\ data' = hist[RunKey].rows
                  /\ hist' = hist
            /\ ~Remembered(RunKey) =>
                  /\ lastLoad' = "miss"
                  /\ hist'[RunKey].fetched /\ hist'[RunKey].at = now
                  /\ hist'[RunKey].rows = data'
       /\ (pc' = "load" /\ clear_cache') =>
            \A k \in Keys : ~cache'[k].present /\ ~Remembered(k)'
      ]_vars

\* a load served from the cache some time after the provider call
C9_Witness ==
    /\ pc = "main" /\ lastLoad = "hit" /\ now > hist[RunKey].at
    /\ \E k \in Keys : k # RunKey /\ hist[k].fetched

\* C10: while a failed provider call for a key is less than 3600 s old and
\* no clear has happened, every load of that key returns the empty frame
\* without calling the provider again.
C10_FailureMemoized ==
    [][(LoadStep /\ Remembered(RunKey) /\ hist[RunKey].failed) =>
            /\ lastLoad' = "hit"
            /\ data' = <<>>
            /\ hist' = hist /\ cache' = cache
      ]_vars

\* a later run, served the remembered failure, has shown the warning
C10_Witness ==
    /\ pc = "done" /\ lastLoad = "hit" /\ hist[RunKey].failed
    /\ now > hist[RunKey].at /\ data = <<>> /\ out.warnings = 1

====
